---- MODULE Spec2Model ----
(***************************************************************************)
(* dict2anki (src/dict2anki.go): fetch a definition of a word from the     *)
(* Merriam-Webster API and add it as a note to an Anki deck through        *)
(* AnkiConnect, unless the deck already holds a card for the word.         *)
(*                                                                         *)
(* The model follows main() step by step.  The environment (the argument   *)
(* vector, the config file, the dictionary response, the AnkiConnect       *)
(* endpoint) is chosen nondeterministically at the step that reads it.     *)
(* The Anki collection persists between invocations of the tool; all the   *)
(* other state is per process.                                             *)
(***************************************************************************)
EXTENDS Integers, Sequences, FiniteSets, TLC

\* Number of invocations of the tool, one after the other.
MaxRuns == 2

---------------------------------------------------------------------------
(* Inputs *)

Words == {"", "run", "Run", "rUN", "run up"}

\* os.Args: the program name, then the positional arguments.
ArgLists ==
    {<<>>, <<"dict2anki">>, <<"dict2anki", "run", "up">>}
        \cup {<<"dict2anki", w>> : w \in Words}

\* Config (lines 15-18) as decoded from config.json.
Configs == [APIKey : {"K"}, DeckName : {"English", "Spanish"}]

NoConfig == [APIKey |-> "", DeckName |-> ""]

\* Elements of the dictionary's JSON array; word "" stands for an element
\* without a "word" key.
JsonElements ==
    { [word |-> "",     fl |-> "verb", shortdef |-> <<"to move fast">>],
      [word |-> "walk", fl |-> "noun", shortdef |-> <<"a stream", "a trip">>],
      [word |-> "",     fl |-> "",     shortdef |-> <<>>] }

JsonArrays ==
    {<<>>} \cup {<<e>> : e \in JsonElements}
           \cup {<<e, f>> : e \in JsonElements, f \in JsonElements}

\* What http.Get and the body give: a transport error, a body that cannot
\* be read, a body that is no JSON array of objects, or a JSON array.
DictResponses ==
    { [kind |-> k, cards |-> <<>>] : k \in {"neterr", "readerr", "badjson"} }
        \cup { [kind |-> "json", cards |-> a] : a \in JsonArrays }

NoResponse == [kind |-> "none", cards |-> <<>>]

\* The Anki collection before the first invocation: empty, or holding a
\* note made by hand whose front field is the bare word.
InitialCollections ==
    { <<>>,
      << [DeckName |-> "English", ModelName |-> "Basic", Front |-> "run",
          Back |-> "to go faster than a walk"] >> }

---------------------------------------------------------------------------
(* Strings *)

ToUpper(c) ==
    CASE c = "r" -> "R" [] c = "u" -> "U" [] c = "n" -> "N" [] c = "p" -> "P"
      [] OTHER -> c

ToLower(c) ==
    CASE c = "R" -> "r" [] c = "U" -> "u" [] c = "N" -> "n" [] c = "P" -> "p"
      [] OTHER -> c

RECURSIVE TitleFrom(_, _, _)
TitleFrom(s, i, atStart) ==
    IF i > Len(s) THEN ""
    ELSE LET c == SubSeq(s, i, i) IN
         IF c = " " THEN c \o TitleFrom(s, i + 1, TRUE)
         ELSE (IF atStart THEN ToUpper(c) ELSE ToLower(c))
                  \o TitleFrom(s, i + 1, FALSE)

NoTitle(s) == s

\* cases.Title(language.AmericanEnglish).String(s)
Title(s) == TitleFrom(s, 1, TRUE)

RECURSIVE Join(_, _)
\* strings.Join(elems, sep)
Join(elems, sep) ==
    IF Len(elems) = 0 THEN ""
    ELSE IF Len(elems) = 1 THEN elems[1]
    ELSE elems[1] \o sep \o Join(Tail(elems), sep)

StartsWith(s, p) == Len(s) >= Len(p) /\ SubSeq(s, 1, Len(p)) = p

---------------------------------------------------------------------------
(* Messages *)

HelpText ==
    "dict2anki is a tool for quickly creating Anki cards from words.\n\nUsage:\n\n        dict2anki <word>\n\nNote:\n\n\t\tThis tool requires a valid Merriam-Webster API key and a deck name specified in the config file located at \"~/.config/dict2anki/config.json\"\n\t\tAlso required is a running instance of Anki with AnkiConnect."

FatalConfig == "Fatal: Failed to open config file."
FatalPing == "Fatal: Failed to connect to Anki. Is it running? Does it have AnkiConnect?"
FatalFetch == "Fatal: Failed to connect to Merriam-Webster and Wiktionary, or failed to parse response."
FatalQuery == "Fatal: Failed to query deck for duplicates."
FatalAdd == "Fatal: Failed to add card to deck."
DuplicateNotice == "Duplicate detected, omitting."
DoneNotice == "Done."

---------------------------------------------------------------------------
(* Cards and notes *)

EmptyCard == [Word |-> "", PartOfSpeech |-> "", Definitions |-> <<>>]

\* json.Unmarshal of one array element into a Card (lines 20-24).
Unmarshal(e) ==
    [Word |-> e.word, PartOfSpeech |-> e.fl, Definitions |-> e.shortdef]

\* cards[0] (line 77)
FirstCard(cards) == cards[1]

ParseSilently(body) ==
    IF body.kind = "readerr"
    THEN [outcome |-> "readerr", card |-> EmptyCard, printed |-> <<>>]
    ELSE IF body.kind = "badjson"
    THEN [outcome |-> "decodeerr", card |-> EmptyCard, printed |-> <<>>]
    ELSE IF Len(body.cards) = 0
    THEN [outcome |-> "panic", card |-> EmptyCard, printed |-> <<>>]
    ELSE [outcome |-> "ok", card |-> Unmarshal(FirstCard(body.cards)),
          printed |-> <<>>]

\* parseResponse (lines 62-78).  Indexing an empty slice panics.
parseResponse(body) ==
    IF body.kind = "readerr"
    THEN [outcome |-> "readerr", card |-> EmptyCard,
          printed |-> <<"Error: Failed to read response body.">>]
    ELSE IF body.kind = "badjson"
    THEN [outcome |-> "decodeerr", card |-> EmptyCard,
          printed |-> <<"Error: Failed to parse response body JSON.">>]
    ELSE IF Len(body.cards) = 0
    THEN [outcome |-> "panic", card |-> EmptyCard, printed |-> <<>>]
    ELSE [outcome |-> "ok", card |-> Unmarshal(FirstCard(body.cards)),
          printed |-> <<>>]

KeepWord(card, word) == card

\* card.Word = word (line 93)
SetWord(card, word) == [card EXCEPT !.Word = word]

\* The URL of the GET request (line 81).
Url(word, key) ==
    "https://www.dictionaryapi.com/api/v3/references/collegiate/json/"
        \o word \o "?key=" \o key

\* requestDefinition (lines 80-96), given what the GET produced.
requestDefinition(word, resp) ==
    IF resp.kind = "neterr"
    THEN [outcome |-> "neterr", card |-> EmptyCard,
          printed |-> <<"Error: Failed to contact Merriam-Webster.">>]
    ELSE LET p == parseResponse(resp) IN
         IF p.outcome = "panic" THEN p
         ELSE IF p.outcome # "ok"
         THEN [outcome |-> p.outcome, card |-> EmptyCard,
               printed |-> p.printed \o <<"Error: Failed to parse response">>]
         ELSE [outcome |-> "ok", card |-> SetWord(p.card, word),
               printed |-> <<>>]

EmptyNote == [DeckName |-> "", ModelName |-> "", Front |-> "", Back |-> ""]

\* The note built by addCardToDeck (lines 112-119).
NoteFor(card, deck) ==
    [DeckName  |-> deck,
     ModelName |-> "Basic",
     Front     |-> Title(card.Word),
     Back      |-> card.PartOfSpeech \o "<br><br>"
                       \o Join(card.Definitions, "<br>")]

\* The search expression of checkDeckForDuplicate (line 99).
Query(word, deck) == "\"deck:" \o deck \o "\" \"front:" \o word \o "\""

\* client.Cards.Get: the cards of the collection the expression selects,
\* the front field compared as exact text.
CardsGet(collection, query) ==
    SelectSeq(collection, LAMBDA n : Query(n.Front, n.DeckName) = query)

MoreThanOne(cards) == Len(cards) > 1

\* len(*cards) != 0 (line 104)
DuplicateFound(cards) == Len(cards) # 0

\* checkDeckForDuplicate (lines 98-109); restErr: the search call failed.
checkDeckForDuplicate(collection, word, deck, restErr) ==
    IF restErr THEN [exists |-> FALSE, err |-> TRUE]
    ELSE [exists |-> DuplicateFound(CardsGet(collection, Query(word, deck))),
          err |-> FALSE]

---------------------------------------------------------------------------
(* Decisions of main *)

\* len(os.Args) == 0 (line 131)
ArgsMissing(args) == Len(args) = 0

PingErrorIgnored(restErr) == "fetch"

\* After client.Ping() (lines 145-149).
AfterPing(restErr) == IF restErr THEN "exited" ELSE "fetch"

IgnoreDuplicate(err, duplicateExists) == IF err THEN "fatal" ELSE "add"

\* After checkDeckForDuplicate (lines 164-173).
AfterDuplicateCheck(err, duplicateExists) ==
    IF err THEN "fatal" ELSE IF duplicateExists THEN "omit" ELSE "add"

RetryAdd(err) == IF err THEN "add" ELSE "exited"

\* After addCardToDeck (lines 176-182): main returns either way.
AfterAdd(err) == "exited"

---------------------------------------------------------------------------
(* State *)

VARIABLES
    run,          \* number of the current invocation
    pc,           \* position in main, "exited" or "panicked"
    osArgs,       \* os.Args of the invocation
    config,       \* the loaded Config
    response,     \* what the dictionary request produced
    card,         \* the Card returned by requestDefinition
    dup,          \* what checkDeckForDuplicate returned
    output,       \* the strings printed by println, in order
    calls,        \* the HTTP calls made by the invocation, in order
    steps,        \* the steps of main taken by the invocation, in order
    failure,      \* the error that ended the invocation, or "none"
    notes,        \* the notes of the Anki collection
    notesAtStart, \* the collection when the invocation started
    prev          \* word, deck and result of the previous invocation

vars == <<run, pc, osArgs, config, response, card, dup, output, calls,
          steps, failure, notes, notesAtStart, prev>>

NoDup == [exists |-> FALSE, err |-> FALSE]
NoPrev == [word |-> "", deck |-> "", result |-> "none"]

Call(to, op, arg, note) == [to |-> to, op |-> op, arg |-> arg, note |-> note]

Init ==
    /\ run = 1
    /\ pc = "args"
    /\ osArgs \in ArgLists
    /\ config = NoConfig
    /\ response = NoResponse
    /\ card = EmptyCard
    /\ dup = NoDup
    /\ output = <<>>
    /\ calls = <<>>
    /\ steps = <<>>
    /\ failure = "none"
    /\ notes \in InitialCollections
    /\ notesAtStart = notes
    /\ prev = NoPrev

---------------------------------------------------------------------------
(* Steps of main (lines 129-183) *)

\* Lines 130-134.
ValidateArgs ==
    /\ pc = "args"
    /\ steps' = Append(steps, "args")
    /\ IF ArgsMissing(osArgs)
       THEN /\ output' = Append(output, HelpText)
            /\ pc' = "exited"
       ELSE /\ pc' = "config"
            /\ UNCHANGED output
    /\ UNCHANGED <<run, osArgs, config, response, card, dup, calls, failure,
                   notes, notesAtStart, prev>>

\* Lines 136-141; LoadConfig (lines 39-60) fails or yields a Config.
LoadConfigStep ==
    /\ pc = "config"
    /\ steps' = Append(steps, "config")
    /\ \/ /\ failure' = "config"
          /\ output' = Append(output, FatalConfig)
          /\ pc' = "exited"
          /\ UNCHANGED config
       \/ /\ \E c \in Configs : config' = c
          /\ pc' = "ping"
          /\ UNCHANGED <<failure, output>>
    /\ UNCHANGED <<run, osArgs, response, card, dup, calls, notes,
                   notesAtStart, prev>>

\* Lines 143-149.
Ping ==
    /\ pc = "ping"
    /\ steps' = Append(steps, "ping")
    /\ calls' = Append(calls, Call("local", "ping", "", EmptyNote))
    /\ \E restErr \in BOOLEAN :
          /\ pc' = AfterPing(restErr)
          /\ IF restErr
             THEN /\ failure' = "ping"
                  /\ output' = Append(output, FatalPing)
             ELSE UNCHANGED <<failure, output>>
    /\ UNCHANGED <<run, osArgs, config, response, card, dup, notes,
                   notesAtStart, prev>>

\* Lines 151-156.  os.Args[1] is evaluated before requestDefinition is
\* called; with a single element in os.Args the index is out of range.
Fetch ==
    /\ pc = "fetch"
    /\ steps' = Append(steps, "fetch")
    /\ IF Len(osArgs) < 2
       THEN /\ pc' = "panicked"
            /\ UNCHANGED <<response, card, calls, output, failure>>
       ELSE \E resp \in DictResponses :
              LET word == osArgs[2]
                  r == requestDefinition(word, resp)
              IN  /\ response' = resp
                  /\ calls' = Append(calls,
                        Call("remote", "GET", Url(word, config.APIKey),
                             EmptyNote))
                  /\ IF r.outcome = "ok"
                     THEN /\ card' = r.card
                          /\ pc' = "print"
                          /\ UNCHANGED <<output, failure>>
                     ELSE IF r.outcome = "panic"
                     THEN /\ pc' = "panicked"
                          /\ UNCHANGED <<card, output, failure>>
                     ELSE /\ output' = (output \o r.printed) \o <<FatalFetch>>
                          /\ failure' = r.outcome
                          /\ pc' = "exited"
                          /\ UNCHANGED card
    /\ UNCHANGED <<run, osArgs, config, dup, notes, notesAtStart, prev>>

\* Lines 158-161.
PrintCard ==
    /\ pc = "print"
    /\ steps' = Append(steps, "print")
    /\ output' = output \o <<card.Word, card.PartOfSpeech,
                             Join(card.Definitions, "\n")>>
    /\ pc' = "dupcheck"
    /\ UNCHANGED <<run, osArgs, config, response, card, dup, calls, failure,
                   notes, notesAtStart, prev>>

\* Lines 163-173.
CheckDuplicate ==
    /\ pc = "dupcheck"
    /\ steps' = Append(steps, "dupcheck")
    /\ calls' = Append(calls,
          Call("local", "findCards", Query(card.Word, config.DeckName),
               EmptyNote))
    /\ \E restErr \in BOOLEAN :
          LET r == checkDeckForDuplicate(notes, card.Word, config.DeckName,
                                         restErr)
              next == AfterDuplicateCheck(r.err, r.exists)
          IN  /\ dup' = r
              /\ IF next = "fatal"
                 THEN /\ failure' = "search"
                      /\ output' = Append(output, FatalQuery)
                      /\ pc' = "exited"
                 ELSE IF next = "omit"
                 THEN /\ output' = Append(output, DuplicateNotice)
                      /\ pc' = "exited"
                      /\ UNCHANGED failure
                 ELSE /\ pc' = "add"
                      /\ UNCHANGED <<failure, output>>
    /\ UNCHANGED <<run, osArgs, config, response, card, notes, notesAtStart,
                   prev>>

\* Lines 175-182; addCardToDeck (lines 111-127).
AddCard ==
    /\ pc = "add"
    /\ steps' = Append(steps, "add")
    /\ LET note == NoteFor(card, config.DeckName) IN
       /\ calls' = Append(calls, Call("local", "addNote", "", note))
       /\ \E restErr \in BOOLEAN :
            /\ pc' = AfterAdd(restErr)
            /\ IF restErr
               THEN /\ failure' = "add"
                    /\ output' = Append(output, FatalAdd)
                    /\ UNCHANGED notes
               ELSE /\ notes' = Append(notes, note)
                    /\ output' = Append(output, DoneNotice)
                    /\ UNCHANGED failure
    /\ UNCHANGED <<run, osArgs, config, response, card, dup, notesAtStart,
                   prev>>

Added == pc = "exited" /\ output # <<>> /\ output[Len(output)] = DoneNotice

\* The tool is invoked again on the same Anki collection.
NewRun ==
    /\ pc \in {"exited", "panicked"}
    /\ run < MaxRuns
    /\ run' = run + 1
    /\ pc' = "args"
    /\ osArgs' \in ArgLists
    /\ config' = NoConfig
    /\ response' = NoResponse
    /\ card' = EmptyCard
    /\ dup' = NoDup
    /\ output' = <<>>
    /\ calls' = <<>>
    /\ steps' = <<>>
    /\ failure' = "none"
    /\ notesAtStart' = notes
    /\ prev' = [word |-> IF Len(osArgs) >= 2 THEN osArgs[2] ELSE "",
                deck |-> config.DeckName,
                result |-> IF Added THEN "added" ELSE "other"]
    /\ UNCHANGED notes

Next ==
    \/ ValidateArgs
    \/ LoadConfigStep
    \/ Ping
    \/ Fetch
    \/ PrintCard
    \/ CheckDuplicate
    \/ AddCard
    \/ NewRun

Spec == Init /\ [][Next]_vars

---------------------------------------------------------------------------
(* Vocabulary of the properties *)

Took(step) == \E i \in 1..Len(steps) : steps[i] = step

CallsOf(op) == SelectSeq(calls, LAMBDA c : c.op = op)

CallsTo(host) == SelectSeq(calls, LAMBDA c : c.to = host)

LastLine == IF output = <<>> THEN "" ELSE output[Len(output)]

IsPrefix(s, t) == Len(s) <= Len(t) /\ s = SubSeq(t, 1, Len(s))

StepOrder ==
    <<"args", "config", "ping", "fetch", "print", "dupcheck", "add">>

CallOrder == <<"ping", "GET", "findCards", "addNote">>

Ops == [i \in 1..Len(calls) |-> calls[i].op]

\* The notes the collection held, when the invocation started, in the
\* configured deck with the front field equal to the card's word.
MatchesAtStart ==
    { i \in 1..Len(notesAtStart) :
        /\ notesAtStart[i].DeckName = config.DeckName
        /\ notesAtStart[i].Front = card.Word }

\* Title case of the input words, written out.
ExpectedFront(w) ==
    CASE w = "" -> ""
      [] w \in {"run", "Run", "rUN"} -> "Run"
      [] w = "run up" -> "Run Up"

\* The back field of an element with at most two definitions, written out.
ExpectedBack(e) ==
    CASE Len(e.shortdef) = 0 -> e.fl \o "<br><br>"
      [] Len(e.shortdef) = 1 -> e.fl \o "<br><br>" \o e.shortdef[1]
      [] Len(e.shortdef) = 2 ->
            e.fl \o "<br><br>" \o e.shortdef[1] \o "<br>" \o e.shortdef[2]

ExpectedQuery == "\"deck:" \o config.DeckName \o "\" \"front:" \o osArgs[2] \o "\""

IsErrorLine(l) == StartsWith(l, "Error:") \/ StartsWith(l, "Fatal:")

ErrorLines == SelectSeq(output, IsErrorLine)

CardLines == IF Took("print") THEN SubSeq(output, 1, 3) ELSE <<>>

FetchFailures == {"neterr", "readerr", "decodeerr"}

---------------------------------------------------------------------------
(* Properties *)

\* C1: when the config loaded, the ping and the fetch succeeded and the
\* duplicate search returned at least one card, no note-add call is made,
\* the collection is unchanged and the last printed line is the duplicate
\* notice.
C1_DuplicateOmitted ==
    (Took("dupcheck") /\ failure = "none" /\ MatchesAtStart # {}) =>
        /\ pc = "exited"
        /\ CallsOf("addNote") = <<>>
        /\ notes = notesAtStart
        /\ LastLine = DuplicateNotice

C1_Witness ==
    /\ Took("dupcheck") /\ failure = "none" /\ MatchesAtStart # {}
    /\ pc = "exited"

\* C2: when every step succeeded and the duplicate search was empty, exactly
\* one note is added, to the configured deck, of type Basic, with Front the
\* title-cased word and Back the part of speech, "<br><br>" and the
\* definitions joined with "<br>", and the last printed line is "Done.".
C2_NoteAdded ==
    (Took("add") /\ failure = "none" /\ pc = "exited") =>
        LET e == response.cards[1]
            note == [DeckName  |-> config.DeckName,
                     ModelName |-> "Basic",
                     Front     |-> ExpectedFront(osArgs[2]),
                     Back      |-> ExpectedBack(e)]
        IN  /\ Len(CallsOf("addNote")) = 1
            /\ CallsOf("addNote")[1].note = note
            /\ notes = Append(notesAtStart, note)
            /\ LastLine = DoneNotice
            /\ (/\ osArgs[2] = "run" /\ config.DeckName = "English"
                /\ e.fl = "verb" /\ e.shortdef = <<"to move fast">>)
                  => /\ note.Front = "Run"
                     /\ note.Back = "verb<br><br>to move fast"

C2_Witness ==
    /\ Took("add") /\ failure = "none" /\ pc = "exited"
    /\ osArgs[2] = "run" /\ config.DeckName = "English"
    /\ response.cards[1].fl = "verb"
    /\ notes[Len(notes)].Back = "verb<br><br>to move fast"

\* C3: a second invocation for the same word and deck, right after one that
\* added the note, finds the note in its duplicate check and adds nothing.
C3_SecondRunSkips ==
    (/\ prev.result = "added"
     /\ Len(osArgs) >= 2 /\ osArgs[2] = prev.word
     /\ config.DeckName = prev.deck
     /\ Took("dupcheck") /\ failure = "none") =>
        /\ dup.exists
        /\ pc = "exited"
        /\ notes = notesAtStart
        /\ LastLine = DuplicateNotice

\* C4: on a response that is an empty JSON array the fetch returns an error:
\* the invocation ends on the fatal fetch path, with its message, and makes
\* no duplicate search and no note-add.
C4_EmptyArrayFailsCleanly ==
    (Took("fetch") /\ response.kind = "json" /\ Len(response.cards) = 0) =>
        /\ pc = "exited"
        /\ failure \in FetchFailures
        /\ LastLine = FatalFetch
        /\ CallsOf("findCards") = <<>> /\ CallsOf("addNote") = <<>>

\* C5: invoked without a word, the invocation stops at the argument check,
\* printing the help text: the config is not loaded, no HTTP call is made
\* and the missing argument is never read.
C5_NoWordStopsAtArgs ==
    Len(osArgs) < 2 =>
        /\ ~Took("config")
        /\ calls = <<>>
        /\ pc # "panicked"
        /\ Took("args") => (pc = "exited" /\ output = <<HelpText>>)

\* C6 as stated: at most three HTTP calls, at most one remote and at most
\* two local.
C6_AtMostThreeCalls ==
    /\ Len(calls) <= 3
    /\ Len(CallsTo("remote")) <= 1
    /\ Len(CallsTo("local")) <= 2

\* C6: an invocation makes at most four HTTP calls, at most one to the
\* dictionary and at most three to the local endpoint (ping, search,
\* note-add), in that strict sequence: ping, dictionary, search, note-add.
C6_AtMostFourCalls ==
    /\ Len(calls) <= 4
    /\ Len(CallsTo("remote")) <= 1
    /\ Len(CallsTo("local")) <= 3
    /\ IsPrefix(Ops, CallOrder)
    /\ \A i \in 1..Len(calls) : calls[i].to = "remote" <=> calls[i].op = "GET"

C6_Witness ==
    /\ Len(calls) = 4 /\ Len(CallsTo("local")) = 3 /\ pc = "exited"

\* C7 as stated: every failure prints one or two lines, each beginning with
\* "Error:" or "Fatal:", and the process ends.
C7_OneOrTwoLines ==
    failure # "none" =>
        /\ pc = "exited"
        /\ output = CardLines \o ErrorLines
        /\ Len(ErrorLines) \in {1, 2}

\* C7: every failure prints one to three lines, each beginning with "Error:"
\* or "Fatal:" (one for a config, ping, search or note-add failure, two for a
\* dictionary network error, three for a body-read or JSON-decode error),
\* nothing else but the card printed before it, and the process ends.
C7_OneToThreeLines ==
    failure # "none" =>
        /\ pc = "exited"
        /\ output = CardLines \o ErrorLines
        /\ Len(ErrorLines) =
              CASE failure \in {"config", "ping", "search", "add"} -> 1
                [] failure = "neterr" -> 2
                [] failure \in {"readerr", "decodeerr"} -> 3
        /\ StartsWith(LastLine, "Fatal:")

C7_Witness ==
    /\ failure \in {"readerr", "decodeerr"} /\ pc = "exited"
    /\ Len(ErrorLines) = 3

\* C8: the steps run in the fixed order, none twice, and every error is
\* terminal: no HTTP call after a config failure, no dictionary call after a
\* ping failure, no card printed and no search or note-add after a fetch
\* failure, no note-add after a search error, no "Done." after a note-add
\* error.
C8_FixedOrderErrorsTerminal ==
    /\ IsPrefix(steps, StepOrder)
    /\ failure # "none" => pc = "exited"
    /\ failure = "config" => (calls = <<>> /\ steps = SubSeq(StepOrder, 1, 2))
    /\ failure = "ping" =>
          (Ops = <<"ping">> /\ steps = SubSeq(StepOrder, 1, 3))
    /\ failure \in FetchFailures =>
          /\ Ops = <<"ping", "GET">>
          /\ steps = SubSeq(StepOrder, 1, 4)
          /\ output = ErrorLines
    /\ failure = "search" =>
          (CallsOf("addNote") = <<>> /\ steps = SubSeq(StepOrder, 1, 6))
    /\ failure = "add" =>
          /\ steps = StepOrder
          /\ \A i \in 1..Len(output) : output[i] # DoneNotice
          /\ notes = notesAtStart
    /\ LastLine = DoneNotice => (steps = StepOrder /\ failure = "none")

C8_Witness ==
    /\ failure = "add" /\ pc = "exited" /\ Len(calls) = 4

\* C9: checkDeckForDuplicate issues one search, for the configured deck and
\* the card's word as front field; it returns true without error exactly
\* when the search yields at least one card, false without error when it
\* yields none, and false with an error when the search fails.
C9_DuplicateCheck ==
    Took("dupcheck") =>
        /\ Len(CallsOf("findCards")) = 1
        /\ CallsOf("findCards")[1].arg = ExpectedQuery
        /\ dup.err <=> failure = "search"
        /\ dup.err => ~dup.exists
        /\ ~dup.err => (dup.exists <=> MatchesAtStart # {})

C9_Witness ==
    /\ Took("dupcheck") /\ ~dup.err /\ dup.exists
    /\ Cardinality(MatchesAtStart) = 1

\* C10: on a non-empty array the card's word is the input word, not the
\* word of the response, and its part of speech and definitions are those
\* of the first element; the input word is the one printed, searched for
\* and title-cased into Front.
C10_CardFromFirstElement ==
    (Took("fetch") /\ failure = "none" /\ pc # "panicked") =>
        LET e == response.cards[1] IN
        /\ card = [Word |-> osArgs[2], PartOfSpeech |-> e.fl,
                   Definitions |-> e.shortdef]
        /\ Took("print") =>
              /\ output[1] = osArgs[2]
              /\ output[2] = e.fl
        /\ Took("dupcheck") => calls[3].arg = ExpectedQuery
        /\ Took("add") => calls[4].note.Front = ExpectedFront(osArgs[2])

C10_Witness ==
    /\ Took("add") /\ failure = "none"
    /\ Len(response.cards) = 2
    /\ response.cards[1].word = "walk"
    /\ response.cards[2] # response.cards[1]
    /\ card.Word = "run up"

====
